---- MODULE Spec2Model ----
(***************************************************************************)
(* Half-car-model playback: src/sim-viewer.py (VehicleDynamicsAnimator)    *)
(* and src/animation.py (the single-profile script).                       *)
(*                                                                         *)
(* Fixed-point units.  time: ms, lengths: mm in the data and um in the     *)
(* drawn artists, speed: mm/s, angles: mrad in the data and 1/100 degree   *)
(* where the code converts with np.degrees.  np.sin and np.degrees are     *)
(* tabulated at the angles the input rows use (SinMilli, DegCenti).        *)
(* An acceleration is NaN or a fraction num/den in m/s^2 with den > 0.     *)
(***************************************************************************)
EXTENDS Integers, Sequences, FiniteSets, TLC

VARIABLES prog, fps, step_size, files, phase, error, printed,
          df, current_car, chart, frames, frame_seq, drawn, hist

vars == <<prog, fps, step_size, files, phase, error, printed,
          df, current_car, chart, frames, frame_seq, drawn, hist>>

(* ---------------------------------------------------------------------- *)
(* Bounds of the model                                                     *)
(* ---------------------------------------------------------------------- *)
\* short recorded series have up to MaxLen + 1 rows
MaxLen == 3
\* the long series: one frame at stride 33, two frames at stride 16
LongLen == 34

(* ---------------------------------------------------------------------- *)
(* Module-level configuration                                              *)
(* ---------------------------------------------------------------------- *)
\* sim-viewer.py:8-12, in mm
car_params ==
    [GR86    |-> [L1 |-> 1280, L2 |-> 1290],
     LexusLS |-> [L1 |-> 1550, L2 |-> 1570],
     Samber  |-> [L1 |-> 950,  L2 |-> 950]]

CarNames == {"GR86", "LexusLS", "Samber"}

\* animation.py:10, in mm
AnimParams == [L1 |-> 1200, L2 |-> 1300]

\* sim_dt = 0.001 s, in microseconds
sim_dt == 1000

\* frames per second shipped with each script
ViewerFps == 30
AnimFps == 60

\* display rates the configuration is exercised with (the shipped 30 and 60,
\* rates giving strides 2 and 1, and a rate above the sampling rate)
FpsChoices == {ViewerFps, AnimFps, 500, 1000, 2000}

\* int(x) for x = a / b >= 0: truncation
IntTrunc(a, b) == a \div b

\* Python round(a / b), a >= 0, b > 0: to nearest, ties to even
RoundHalfEven(a, b) ==
    LET q == a \div b
        r == a % b
    IN  IF 2 * r < b THEN q
        ELSE IF 2 * r > b THEN q + 1
        ELSE IF q % 2 = 0 THEN q ELSE q + 1

\* the stride with round() in place of int()
StepSizeRounded(f) == RoundHalfEven(1000000, f * sim_dt)

\* the stride raised to 1 when the display is faster than the sampling
StepSizeAtLeastOne(f) ==
    IF IntTrunc(1000000, f * sim_dt) < 1 THEN 1
    ELSE IntTrunc(1000000, f * sim_dt)

\* step_size = int((1/fps) / sim_dt), with 1/fps s = 1000000/fps us
StepSizeOf(f) == IntTrunc(1000000, f * sim_dt)

(* ---------------------------------------------------------------------- *)
(* numpy helpers, tabulated                                                *)
(* ---------------------------------------------------------------------- *)
Thetas == {0, 100, 500, -500}

\* np.sin(theta), theta in mrad, result in 1/1000
SinMilli(th) ==
    CASE th = 0    -> 0
      [] th = 100  -> 100
      [] th = 500  -> 479
      [] th = -500 -> -479

\* np.degrees(theta), theta in mrad, result in 1/100 degree
DegCenti(th) ==
    CASE th = 0    -> 0
      [] th = 100  -> 573
      [] th = 500  -> 2865
      [] th = -500 -> -2865

\* floor(log2(a / b)) for a, b > 0: the binary exponent of the double a/b
RECURSIVE Log2Floor(_, _)
Log2Floor(a, b) ==
    IF a >= 2 * b THEN Log2Floor(a, 2 * b) + 1
    ELSE IF a < b THEN Log2Floor(2 * a, b) - 1
    ELSE 0

\* 2^j mod n, for n = 5 (period 4) and n = 25 (period 20)
RECURSIVE Pow2Mod(_, _)
Pow2Mod(j, n) == IF j = 0 THEN 1 ELSE (2 * Pow2Mod(j - 1, n)) % n

\* A format rounds the binary double, not the decimal in the file.  The
\* decimal m / (2^a * d), m odd and d in {5, 25}, lies in [2^E, 2^(E+1)); its
\* 53-bit significand is m * 2^k / d rounded to nearest, k = 52 - E - a.
\* The remainder of m * 2^k by d says whether the double is exact (0),
\* below the decimal (less than d/2) or above it.
DoubleVsDecimal(m, a, d) ==
    LET E == Log2Floor(m, d * (2 ^ a))
        k == 52 - E - a
        r == ((m % d) * Pow2Mod(k % (IF d = 5 THEN 4 ELSE 20), d)) % d
    IN  IF r = 0 THEN "exact" ELSE IF 2 * r < d THEN "below" ELSE "above"

\* a value midway between the decimals q and q + 1 of the format: an exact
\* double goes to the even one, any other to the side the double lies on
RoundTie(q, side) ==
    IF side = "exact" THEN (IF q % 2 = 0 THEN q ELSE q + 1)
    ELSE IF side = "below" THEN q ELSE q + 1

\* f"{x:.2f}" of a time in ms, t >= 0: 1/100 s.  t/1000 s is midway when
\* t = 10q + 5, and then equals (t/5) / (2^3 * 25)
Fmt2Time(t) ==
    IF t % 10 = 5 THEN RoundTie(t \div 10, DoubleVsDecimal(t \div 5, 3, 25))
    ELSE (t + 5) \div 10

\* f"{v*3.6:.1f}" of a speed in mm/s: 1/10 km/h, to nearest.  Defined for
\* even v, as in every row of the series below: the product is midway only
\* for v = 250q + 125
Fmt1Kmh(v) == (v * 36 + 500) \div 1000

\* f"{v:.1f}" of a speed in mm/s, v >= 0: 1/10 m/s.  v/1000 m/s is midway
\* when v = 100q + 50, and then equals (v/50) / (2^2 * 5)
Fmt1Ms(v) ==
    IF v % 100 = 50 THEN RoundTie(v \div 100, DoubleVsDecimal(v \div 50, 2, 5))
    ELSE (v + 50) \div 100

\* Series.min() and Series.max() of a non-empty column
SeqMin(s) == CHOOSE m \in {s[i] : i \in 1..Len(s)} :
                 \A i \in 1..Len(s) : m <= s[i]
SeqMax(s) == CHOOSE m \in {s[i] : i \in 1..Len(s)} :
                 \A i \in 1..Len(s) : m >= s[i]

(* ---------------------------------------------------------------------- *)
(* The recorded series on disk (inputs)                                    *)
(* ---------------------------------------------------------------------- *)
AnimFile == "simulation_results"
FileNames == CarNames \cup {AnimFile}

\* csv/{car_name}_sim.csv, resp. simulation_results.csv
PathOf(name) == IF name = AnimFile THEN <<"simulation_results.csv">>
                ELSE <<"csv/", name, "_sim.csv">>

\* row k (0-based) of the series recorded in each file; columns
\* time, x_abs, ys, theta, yu1, yu2, v_abs.  Times and speeds are even, so
\* neither the time in 1/100 s nor the speed in 1/10 km/h is ever midway
\* between two decimals; the speed in 1/10 m/s can be (row 25 of
\* simulation_results, 7.85 m/s, prints as 7.8).
CsvRow(name, k) ==
    CASE name = "GR86" ->
           \* uneven sampling (2 ms, 4 ms, 2 ms, ...), braking then speeding up
           [time  |-> 2 * k + 2 * (k \div 2),
            x_abs |-> 100 * k,
            ys    |-> 10 * (k % 3),
            theta |-> <<0, 100, -500, 500>>[(k % 4) + 1],
            yu1   |-> 4 * (k % 2),
            yu2   |-> 0 - 6 * (k % 2),
            v_abs |-> IF k < 3 THEN 20000 - 4 * k ELSE 19988 + 2 * k]
      [] name = "LexusLS" ->
           \* 1 s sampling, decelerating by exactly 1 m/s^2, then by 2 m/s^2,
           \* then holding speed
           [time  |-> 1000 * k,
            x_abs |-> 50000 + 30000 * k,
            ys    |-> 20,
            theta |-> <<-500, 0, 100>>[(k % 3) + 1],
            yu1   |-> 2 * k,
            yu2   |-> 2,
            v_abs |-> IF k < 2 THEN 30000 - 1000 * k ELSE 27000]
      [] name = "Samber" ->
           \* 2 ms sampling, accelerating by 1 m/s^2
           [time  |-> 2 * k,
            x_abs |-> 900000 + 20 * k,
            ys    |-> 0 - 10,
            theta |-> <<500, 0>>[(k % 2) + 1],
            yu1   |-> 0,
            yu2   |-> 8,
            v_abs |-> 10000 + 2 * k]
      [] name = AnimFile ->
           \* starts at time 1.0 s, x_abs 10 m, level and at rest height
           [time  |-> 1000 + 2 * k,
            x_abs |-> 10000 + 16 * k,
            ys    |-> 0 - 2 * k,
            theta |-> <<0, -500, 100>>[(k % 3) + 1],
            yu1   |-> 6 * k,
            yu2   |-> 0 - 4 * k,
            v_abs |-> 8000 - 6 * k]

Series(name, n) == [i \in 1..n |-> CsvRow(name, i - 1)]

Missing == [exists |-> FALSE, rows |-> <<>>]
Present(rows) == [exists |-> TRUE, rows |-> rows]

\* the lengths each file is tried with at display rate f; 0 is a
\* header-only file; the long series is tried at the shipped rates, whose
\* strides need it
LenChoices(name, f) ==
    CASE name = "GR86"    -> {0, 1, MaxLen} \cup
                             (IF f \in {ViewerFps, AnimFps} THEN {LongLen} ELSE {})
      [] name = "LexusLS" -> {0, MaxLen - 1, MaxLen + 1}
      [] name = "Samber"  -> {1, MaxLen}
      [] name = AnimFile  -> {0, 1, MaxLen} \cup
                             (IF f \in {ViewerFps, AnimFps} THEN {LongLen} ELSE {})

FileChoices(name, f) ==
    {Missing} \cup {Present(Series(name, n)) : n \in LenChoices(name, f)}

(* ---------------------------------------------------------------------- *)
(* DataFrame and chart                                                     *)
(* ---------------------------------------------------------------------- *)
\* a float of the accel column: NaN, or the fraction num/den with den > 0
NaN == [nan |-> TRUE, num |-> 0, den |-> 1]
Frac(n, d) == [nan |-> FALSE, num |-> n, den |-> d]

\* self.df = None
NoneDf == [isNone |-> TRUE, rows |-> <<>>]
Frame(rows) == [isNone |-> FALSE, rows |-> rows]

\* len(df)
DfLen(d) == Len(d.rows)

\* sim-viewer.py:84-85.  dt = df['time'].diff().mean() is the mean of the
\* n-1 consecutive differences, (t_n - t_1)/(n-1), NaN for fewer than two
\* rows; accel = v_abs.diff() / dt, NaN in the first row.
AccelAt(rows, i) ==
    IF i = 1 \/ Len(rows) < 2 THEN NaN
    ELSE Frac((rows[i].v_abs - rows[i - 1].v_abs) * (Len(rows) - 1),
              rows[Len(rows)].time - rows[1].time)

WithAccel(rows) ==
    [i \in 1..Len(rows) |->
        [time  |-> rows[i].time,  x_abs |-> rows[i].x_abs,
         ys    |-> rows[i].ys,    theta |-> rows[i].theta,
         yu1   |-> rows[i].yu1,   yu2   |-> rows[i].yu2,
         v_abs |-> rows[i].v_abs, accel |-> AccelAt(rows, i)]]

\* the telemetry axes before any load: default limits, empty pitch line
EmptyChart == [xlim |-> <<0, 1000>>, ylim |-> <<0, 100>>,
               pitch_line |-> <<<<>>, <<>>>>]

\* sim-viewer.py:87-90, for a series with at least one row; xlim and ylim
\* are the limits passed to set_xlim and set_ylim
ChartOf(rows) ==
    LET times == [i \in 1..Len(rows) |-> rows[i].time]
        pitch_deg == [i \in 1..Len(rows) |-> DegCenti(rows[i].theta)]
    IN  [xlim |-> <<SeqMin(times), SeqMax(times)>>,
         ylim |-> <<SeqMin(pitch_deg) - 100, SeqMax(pitch_deg) + 100>>,
         pitch_line |-> <<times, pitch_deg>>]

\* VehicleDynamicsAnimator.load_data(car_name) applied to (self.df,
\* self.current_car, telemetry chart).  A missing file raises
\* FileNotFoundError in read_csv before anything is assigned; it is caught and
\* reported by print.  A header-only file is read (df and current_car are
\* assigned, accel is an empty column), then time.min() is NaN and set_xlim
\* raises ValueError, which is not caught.
load_data(car_name, d, car, ch) ==
    IF ~files[car_name].exists
    THEN [df |-> d, current_car |-> car, chart |-> ch,
          printed |-> <<"Error", PathOf(car_name)>>, raised |-> "none"]
    ELSE IF Len(files[car_name].rows) = 0
    THEN [df |-> Frame(<<>>), current_car |-> car_name, chart |-> ch,
          printed |-> printed, raised |-> "ValueError"]
    ELSE [df |-> Frame(WithAccel(files[car_name].rows)),
          current_car |-> car_name,
          chart |-> ChartOf(files[car_name].rows),
          printed |-> <<"Loaded", PathOf(car_name)>>, raised |-> "none"]

(* ---------------------------------------------------------------------- *)
(* Artists and update                                                      *)
(* ---------------------------------------------------------------------- *)
\* the artists as created: empty lines, wheels at the origin, empty texts,
\* default axes limits (coordinates in um)
NoDrawing ==
    [body |-> <<<<>>, <<>>>>, susp_f |-> <<<<>>, <<>>>>, susp_r |-> <<<<>>, <<>>>>,
     wheel_f |-> <<0, 0>>, wheel_r |-> <<0, 0>>,
     xlim |-> <<0, 1000000>>, ylim |-> <<0, 1000000>>,
     pointer |-> <<<<>>, <<>>>>,
     brake_text |-> "", info_color |-> "black", info_text |-> <<>>,
     title |-> <<>>]

\* vertical offsets added by update, in mm
ViewerBodyOffset == 750
ViewerWheelOffset == 250
AnimBodyOffset == 500
AnimWheelOffset == 0

\* df.iloc[idx] is defined for -len <= idx < len
IlocOk(d, idx) == idx >= 0 - DfLen(d) /\ idx < DfLen(d)
Iloc(d, idx) == IF idx >= 0 THEN d.rows[idx + 1] ELSE d.rows[DfLen(d) + idx + 1]

\* sim-viewer.py:103-105
ClampIdxNoClamp(frame, d) == frame * step_size

ClampIdx(frame, d) ==
    IF frame * step_size >= DfLen(d) THEN DfLen(d) - 1 ELSE frame * step_size

\* sim-viewer.py:135; NaN compares False
IsBrakingAtOrBelow(accel) ==
    IF accel.nan THEN FALSE ELSE accel.num <= 0 - accel.den

is_braking(accel) ==
    IF accel.nan THEN FALSE ELSE accel.num < 0 - accel.den

\* sim-viewer.py:116-124 with the wheels raised by the body's offset
LayoutViewerOneOffset(row, L1, L2) ==
    LET x  == row.x_abs * 1000
        yf == row.ys * 1000 + L1 * SinMilli(row.theta) + ViewerBodyOffset * 1000
        yr == row.ys * 1000 - L2 * SinMilli(row.theta) + ViewerBodyOffset * 1000
    IN  [body    |-> << <<x - L2 * 1000, x + L1 * 1000>>, <<yr, yf>> >>,
         susp_f  |-> << <<x + L1 * 1000, x + L1 * 1000>>, <<row.yu1 * 1000, yf>> >>,
         susp_r  |-> << <<x - L2 * 1000, x - L2 * 1000>>, <<row.yu2 * 1000, yr>> >>,
         wheel_f |-> <<x + L1 * 1000, (row.yu1 + ViewerBodyOffset) * 1000>>,
         wheel_r |-> <<x - L2 * 1000, (row.yu2 + ViewerBodyOffset) * 1000>>]

\* sim-viewer.py:116-124
LayoutViewer(row, L1, L2) ==
    LET x  == row.x_abs * 1000
        yf == row.ys * 1000 + L1 * SinMilli(row.theta) + ViewerBodyOffset * 1000
        yr == row.ys * 1000 - L2 * SinMilli(row.theta) + ViewerBodyOffset * 1000
    IN  [body    |-> << <<x - L2 * 1000, x + L1 * 1000>>, <<yr, yf>> >>,
         susp_f  |-> << <<x + L1 * 1000, x + L1 * 1000>>, <<row.yu1 * 1000, yf>> >>,
         susp_r  |-> << <<x - L2 * 1000, x - L2 * 1000>>, <<row.yu2 * 1000, yr>> >>,
         wheel_f |-> <<x + L1 * 1000, (row.yu1 + ViewerWheelOffset) * 1000>>,
         wheel_r |-> <<x - L2 * 1000, (row.yu2 + ViewerWheelOffset) * 1000>>]

\* animation.py:39-46
LayoutAnim(row, L1, L2) ==
    LET x  == row.x_abs * 1000
        yf == row.ys * 1000 + L1 * SinMilli(row.theta) + AnimBodyOffset * 1000
        yr == row.ys * 1000 - L2 * SinMilli(row.theta) + AnimBodyOffset * 1000
    IN  [body    |-> << <<x - L2 * 1000, x + L1 * 1000>>, <<yr, yf>> >>,
         susp_f  |-> << <<x + L1 * 1000, x + L1 * 1000>>, <<row.yu1 * 1000, yf>> >>,
         susp_r  |-> << <<x - L2 * 1000, x - L2 * 1000>>, <<row.yu2 * 1000, yr>> >>,
         wheel_f |-> <<x + L1 * 1000, (row.yu1 + AnimWheelOffset) * 1000>>,
         wheel_r |-> <<x - L2 * 1000, (row.yu2 + AnimWheelOffset) * 1000>>]

\* sim-viewer.py:107-148: the artists after drawing `row` for profile `car`
RenderViewer(row, car) ==
    LET lay == LayoutViewer(row, car_params[car].L1, car_params[car].L2)
        pitch_val == DegCenti(row.theta)
    IN  [body |-> lay.body, susp_f |-> lay.susp_f, susp_r |-> lay.susp_r,
         wheel_f |-> lay.wheel_f, wheel_r |-> lay.wheel_r,
         xlim |-> <<(row.x_abs - 5000) * 1000, (row.x_abs + 5000) * 1000>>,
         ylim |-> <<0 - 1000000, 3000000>>,
         pointer |-> << <<row.time>>, <<pitch_val>> >>,
         brake_text |-> IF is_braking(row.accel) THEN "BRAKING" ELSE "",
         info_color |-> IF is_braking(row.accel) THEN "red" ELSE "black",
         info_text |-> <<car, Fmt2Time(row.time), Fmt1Kmh(row.v_abs), pitch_val>>,
         title |-> <<>>]

\* VehicleDynamicsAnimator.update(frame) on (self.df, self.current_car) and
\* the artists `dr`: the artists afterwards, the row index used (-2: none),
\* and the exception that escapes ("none": returns normally)
update(frame, d, car, dr) ==
    IF d.isNone THEN [drawn |-> dr, idx |-> 0 - 2, raised |-> "none"]
    ELSE LET idx == ClampIdx(frame, d)
         IN  IF ~IlocOk(d, idx)
             THEN [drawn |-> dr, idx |-> idx, raised |-> "IndexError"]
             ELSE [drawn |-> RenderViewer(Iloc(d, idx), car),
                   idx |-> idx, raised |-> "none"]

\* animation.py:29-53
anim_update(frame, d, dr) ==
    LET idx == frame * step_size
    IN  IF idx >= DfLen(d) THEN [drawn |-> dr, idx |-> 0 - 2, raised |-> "none"]
        ELSE LET row == Iloc(d, idx)
                 lay == LayoutAnim(row, AnimParams.L1, AnimParams.L2)
             IN  [drawn |->
                    [dr EXCEPT !.body = lay.body, !.susp_f = lay.susp_f,
                               !.susp_r = lay.susp_r, !.wheel_f = lay.wheel_f,
                               !.wheel_r = lay.wheel_r,
                               !.xlim = <<(row.x_abs - 5000) * 1000,
                                          (row.x_abs + 5000) * 1000>>,
                               !.ylim = <<0 - 1000000, 3000000>>,
                               !.title = <<Fmt2Time(row.time), Fmt1Ms(row.v_abs)>>],
                   idx |-> idx, raised |-> "none"]

(* ---------------------------------------------------------------------- *)
(* History kept for the properties (not program state)                     *)
(* ---------------------------------------------------------------------- *)
NoPre == [taken |-> FALSE, df |-> NoneDf, current_car |-> "", frame_seq |-> 0]
Pre == [taken |-> TRUE, df |-> df, current_car |-> current_car,
        frame_seq |-> frame_seq]

\* op: the handler that ran last; frame: the frame it passed to update
\* (-1: update was not called); idx: the row index update used (-2: none);
\* prevBrake: brake_text before that update; want, pre, raised: the profile
\* the last change_car was asked for, the state before it and what it
\* raised; ticks: timer events since then (counted up to 2); initLen:
\* len(df) when FuncAnimation was created
NoHist == [op |-> "none", frame |-> 0 - 1, idx |-> 0 - 2, prevBrake |-> "",
           want |-> "", pre |-> NoPre, raised |-> "none", ticks |-> 0,
           initLen |-> 0 - 1]

(* ---------------------------------------------------------------------- *)
(* Handlers                                                                *)
(* ---------------------------------------------------------------------- *)
Init ==
    /\ prog \in {"sim-viewer", "animation"}
    /\ fps \in FpsChoices
    /\ step_size = StepSizeOf(fps)
    /\ \E g \in FileChoices("GR86", fps), l \in FileChoices("LexusLS", fps),
          s \in FileChoices("Samber", fps), a \in FileChoices(AnimFile, fps) :
            /\ prog = "sim-viewer" => a = Missing
            /\ prog = "animation" => g = Missing /\ l = Missing /\ s = Missing
            /\ files = [GR86 |-> g, LexusLS |-> l, Samber |-> s,
                        simulation_results |-> a]
    /\ phase = "init"
    /\ error = "none"
    /\ printed = <<>>
    /\ df = NoneDf
    /\ current_car = ""
    /\ chart = EmptyChart
    /\ frames = 0
    /\ frame_seq = 0
    /\ drawn = NoDrawing
    /\ hist = NoHist

Crash(exc) ==
    /\ phase' = "crashed"
    /\ error' = exc
    /\ UNCHANGED <<frames, frame_seq, drawn>>
    /\ hist' = [hist EXCEPT !.op = "__init__"]

\* VehicleDynamicsAnimator.__init__ (sim-viewer.py:20-75, run from 153-155)
ViewerInit ==
    /\ prog = "sim-viewer"
    /\ phase = "init"
    /\ LET ld == load_data("GR86", NoneDf, "GR86", EmptyChart)
       IN  /\ df' = ld.df
           /\ current_car' = ld.current_car
           /\ chart' = ld.chart
           /\ printed' = ld.printed
           /\ IF ld.raised # "none" THEN Crash(ld.raised)
              ELSE IF ld.df.isNone THEN Crash("TypeError")
              ELSE IF step_size = 0 THEN Crash("ZeroDivisionError")
              ELSE /\ frames' = DfLen(ld.df) \div step_size
                   /\ frame_seq' = 0
                   /\ phase' = "constructed"
                   /\ error' = "none"
                   /\ hist' = [hist EXCEPT !.op = "__init__",
                                           !.initLen = DfLen(ld.df)]
                   /\ UNCHANGED drawn
    /\ UNCHANGED <<prog, fps, step_size, files>>

\* animation.py:7-56, the script body up to plt.show()
AnimMain ==
    /\ prog = "animation"
    /\ phase = "init"
    /\ IF ~files[AnimFile].exists
       THEN Crash("FileNotFoundError") /\ UNCHANGED df
       ELSE /\ df' = Frame(files[AnimFile].rows)
            /\ IF step_size = 0 THEN Crash("ZeroDivisionError")
               ELSE /\ frames' = Len(files[AnimFile].rows) \div step_size
                    /\ frame_seq' = 0
                    /\ phase' = "constructed"
                    /\ error' = "none"
                    /\ hist' = [hist EXCEPT !.op = "__init__",
                                   !.initLen = Len(files[AnimFile].rows)]
                    /\ UNCHANGED drawn
    /\ UNCHANGED <<prog, fps, step_size, files, current_car, chart, printed>>

\* the animation function FuncAnimation was given
CallUpdate(frame) ==
    IF prog = "sim-viewer" THEN update(frame, df, current_car, drawn)
    ELSE anim_update(frame, df, drawn)

\* FuncAnimation's first draw (frames=..., no init_func): the first frame of
\* a fresh frame sequence is drawn, then the timer starts
Start ==
    /\ phase = "constructed"
    /\ phase' = "running"
    /\ IF frames > 0
       THEN LET u == CallUpdate(0)
            IN  /\ drawn' = u.drawn
                /\ error' = u.raised
                /\ hist' = [hist EXCEPT !.op = "_start", !.frame = 0,
                                        !.idx = u.idx,
                                        !.prevBrake = drawn.brake_text]
       ELSE /\ UNCHANGED <<drawn, error>>
            /\ hist' = [hist EXCEPT !.op = "_start"]
    /\ UNCHANGED <<prog, fps, step_size, files, printed, df, current_car,
                   chart, frames, frame_seq>>

Ticked(frame, idx) ==
    [hist EXCEPT !.op = "tick", !.frame = frame, !.idx = idx,
                 !.prevBrake = drawn.brake_text,
                 !.ticks = IF hist.ticks < 2 THEN hist.ticks + 1 ELSE 2]

\* one timer event (interval_ms): the next frame of self.ani.frame_seq is
\* passed to update; when the sequence is exhausted the animation repeats
\* (repeat defaults to True): the first frame is drawn again and frame_seq is
\* replaced by a new sequence
Tick ==
    /\ phase = "running"
    /\ IF frame_seq < frames
       THEN LET u == CallUpdate(frame_seq)
            IN  /\ frame_seq' = frame_seq + 1
                /\ drawn' = u.drawn
                /\ error' = u.raised
                /\ hist' = Ticked(frame_seq, u.idx)
       ELSE IF frames > 0
       THEN LET u == CallUpdate(0)
            IN  /\ frame_seq' = IF u.raised = "none" THEN 0 ELSE frame_seq
                /\ drawn' = u.drawn
                /\ error' = u.raised
                /\ hist' = Ticked(0, u.idx)
       ELSE /\ frame_seq' = 0
            /\ error' = "none"
            /\ UNCHANGED drawn
            /\ hist' = Ticked(0 - 1, 0 - 2)
    /\ UNCHANGED <<prog, fps, step_size, files, phase, printed, df,
                   current_car, chart, frames>>

\* change_car that keeps the position in the frame sequence
ChangeCarNoReset(car_name) ==
    LET ld == load_data(car_name, df, current_car, chart)
    IN  [df |-> ld.df, current_car |-> ld.current_car, chart |-> ld.chart,
         printed |-> ld.printed, raised |-> ld.raised,
         frames |-> frames, frame_seq |-> frame_seq]

\* change_car that refits the number of frames to the new series
ChangeCarRefit(car_name) ==
    LET ld == load_data(car_name, df, current_car, chart)
    IN  [df |-> ld.df, current_car |-> ld.current_car, chart |-> ld.chart,
         printed |-> ld.printed, raised |-> ld.raised,
         frames |-> IF ld.raised = "none" THEN DfLen(ld.df) \div step_size
                    ELSE frames,
         frame_seq |-> IF ld.raised = "none" THEN 0 ELSE frame_seq]

\* VehicleDynamicsAnimator.change_car(car_name): load_data, then a new frame
\* sequence (over the frames FuncAnimation was created with) unless
\* load_data raised
change_car(car_name) ==
    LET ld == load_data(car_name, df, current_car, chart)
    IN  [df |-> ld.df, current_car |-> ld.current_car, chart |-> ld.chart,
         printed |-> ld.printed, raised |-> ld.raised,
         frames |-> frames,
         frame_seq |-> IF ld.raised = "none" THEN 0 ELSE frame_seq]

\* a button click (sim-viewer.py:66)
ChangeCar(car_name) ==
    /\ prog = "sim-viewer"
    /\ phase = "running"
    /\ LET c == change_car(car_name)
       IN  /\ df' = c.df
           /\ current_car' = c.current_car
           /\ chart' = c.chart
           /\ printed' = c.printed
           /\ error' = c.raised
           /\ frames' = c.frames
           /\ frame_seq' = c.frame_seq
    /\ hist' = [hist EXCEPT !.op = "change_car", !.want = car_name,
                            !.pre = Pre, !.frame = 0 - 1, !.idx = 0 - 2,
                            !.raised = change_car(car_name).raised,
                            !.ticks = 0]
    /\ UNCHANGED <<prog, fps, step_size, files, phase, drawn>>

Next ==
    \/ ViewerInit
    \/ AnimMain
    \/ Start
    \/ Tick
    \/ \E car_name \in CarNames : ChangeCar(car_name)

Spec == Init /\ [][Next]_vars

(* ---------------------------------------------------------------------- *)
(* Properties                                                              *)
(* ---------------------------------------------------------------------- *)
Viewer == prog = "sim-viewer"

\* the last handler was a timer event (or the first draw) that called update
UpdateCalled == hist.op \in {"tick", "_start"} /\ hist.frame >= 0

\* the last handler was change_car and its load succeeded
SwitchOk == hist.op = "change_car" /\ files[hist.want].exists
            /\ hist.raised = "none"

\* the last handler was change_car for a profile whose file is missing
SwitchMissing == hist.op = "change_car" /\ ~files[hist.want].exists

\* the recorded rows of the file the active series was read from
RawRows == IF Viewer THEN files[current_car].rows ELSE files[AnimFile].rows

\* C1: a change_car whose file is missing leaves self.df, self.current_car
\* and the position in the frame sequence as they were before the call
C1_FailedSwitchLeavesState ==
    SwitchMissing =>
        /\ df = hist.pre.df
        /\ current_car = hist.pre.current_car
        /\ frame_seq = hist.pre.frame_seq

\* C2 as amended: whenever update is called on a non-empty series, the row
\* it draws is frame * step_size clamped into 0 .. len-1 (the last row
\* whenever frame * step_size >= len) and nothing is raised; animation.py
\* never needs the clamp
C2_ClampedRowIndex ==
    (UpdateCalled /\ DfLen(df) > 0) =>
        /\ error = "none"
        /\ hist.idx >= 0 /\ hist.idx <= DfLen(df) - 1
        /\ hist.frame * step_size < DfLen(df) => hist.idx = hist.frame * step_size
        /\ hist.frame * step_size >= DfLen(df) =>
               (Viewer /\ hist.idx = DfLen(df) - 1)
        /\ Viewer => drawn.pointer[1] = <<RawRows[hist.idx + 1].time>>
        /\ drawn.xlim[1] = (RawRows[hist.idx + 1].x_abs - 5000) * 1000

C2_Witness ==
    /\ Viewer /\ hist.op = "tick" /\ hist.frame >= 0
    /\ DfLen(df) > 1
    /\ hist.frame * step_size >= DfLen(df)
    /\ hist.idx = DfLen(df) - 1
    /\ error = "none"

\* the last update drew the final row because frame * step_size >= len
Held == /\ Viewer /\ UpdateCalled /\ DfLen(df) > 0
        /\ hist.frame * step_size >= DfLen(df)

\* C2 as stated: the clamp, and once frame * step_size >= len every further
\* tick draws the final row again
C2_HoldsFinalRowForever ==
    [][ /\ C2_ClampedRowIndex'
        /\ (Held /\ UpdateCalled') => hist'.idx = DfLen(df) - 1 ]_vars

\* C3: a successful change_car puts the frame sequence at 0 with the new
\* series and profile active; the next call of update draws row 0 of the new
\* series with the new profile's wheelbase; and every row drawn is a row of
\* the series of the profile active at that tick
C3_SwitchRestartsAtRowZero ==
    [][ /\ SwitchOk' =>
              /\ frame_seq' = 0
              /\ current_car' = hist'.want
              /\ df' = Frame(WithAccel(files[hist'.want].rows))
        /\ (SwitchOk /\ UpdateCalled') =>
              /\ hist'.frame = 0 /\ hist'.idx = 0 /\ error' = "none"
              /\ drawn'.info_text[1] = hist.want
              /\ drawn'.pointer[1] = <<files[hist.want].rows[1].time>>
              /\ drawn'.body[1] =
                    <<(files[hist.want].rows[1].x_abs
                         - car_params[hist.want].L2) * 1000,
                      (files[hist.want].rows[1].x_abs
                         + car_params[hist.want].L1) * 1000>>
        /\ (Viewer /\ UpdateCalled /\ error = "none")' =>
              /\ hist'.idx + 1 \in 1..Len(files[current_car'].rows)
              /\ drawn' = RenderViewer(
                     WithAccel(files[current_car'].rows)[hist'.idx + 1],
                     current_car')
      ]_vars

C3_Witness ==
    /\ hist.op = "tick" /\ hist.ticks = 1
    /\ hist.pre.taken /\ hist.pre.current_car # hist.want
    /\ files[hist.want].exists /\ hist.raised = "none"
    /\ hist.pre.frame_seq > 1
    /\ hist.idx = 0
    /\ drawn.info_text[1] = hist.want

\* C4 as stated: the stride is round((1/fps) / sim_dt): 17 at 60 frames per
\* second and 33 at 30
C4_StrideIsRounded ==
    /\ step_size = RoundHalfEven(1000000, fps * sim_dt)
    /\ fps = 60 => step_size = 17
    /\ fps = 30 => step_size = 33

\* C4 as amended: the stride is the quotient truncated, the largest integer
\* n with n * sim_dt <= 1/fps: 16 at 60 frames per second and 33 at 30
C4_StrideIsTruncated ==
    /\ step_size * (fps * sim_dt) <= 1000000
    /\ (step_size + 1) * (fps * sim_dt) > 1000000
    /\ fps = 60 => step_size = 16
    /\ fps = 30 => step_size = 33

C4_Witness ==
    /\ fps = 60 /\ step_size = 16
    /\ hist.op = "tick" /\ hist.frame = 1 /\ hist.idx = 16

\* C5: whenever a timer event can run, self.current_car, self.df (with its
\* accel column) and the pitch chart (curve and limits) are those of one
\* profile's file
C5_SwitchAtomic ==
    (Viewer /\ phase = "running") =>
        /\ files[current_car].exists
        /\ df = Frame(WithAccel(files[current_car].rows))
        /\ chart.pitch_line[1] = [i \in 1..DfLen(df) |-> df.rows[i].time]
        /\ chart.pitch_line[2] =
               [i \in 1..DfLen(df) |-> DegCenti(df.rows[i].theta)]
        /\ DfLen(df) > 0 =>
               /\ chart.xlim = <<df.rows[1].time, df.rows[DfLen(df)].time>>

\* C6: a timer event on a series of length 0 raises nothing and leaves the
\* artists empty, and with no series loaded neither the constructor nor a
\* timer event raises
C6_EmptyOrNoSeriesNeverFails ==
    Viewer =>
        /\ (hist.op = "tick" /\ ~df.isNone /\ DfLen(df) = 0) =>
               (error = "none" /\ drawn.info_text = <<>>)
        /\ df.isNone => (phase # "crashed" /\ error = "none")

\* C7: after update draws row i, BRAKING is shown exactly when i > 0 and
\* (v_abs[i] - v_abs[i-1]) / dt < -1.0, dt the mean sampling step of the
\* whole series; row 0 is never braking, whatever was shown before
C7_BrakingFlag ==
    (Viewer /\ UpdateCalled /\ error = "none" /\ DfLen(df) > 0) =>
        LET rows == RawRows
            n == Len(rows)
            i == hist.idx + 1
            braking == /\ i > 1
                       /\ (rows[i].v_abs - rows[i - 1].v_abs) * (n - 1)
                              < 0 - (rows[n].time - rows[1].time)
        IN  /\ drawn.brake_text = (IF braking THEN "BRAKING" ELSE "")
            /\ drawn.info_color = (IF braking THEN "red" ELSE "black")
            /\ hist.idx = 0 => drawn.brake_text = ""

C7_Witness ==
    /\ Viewer /\ hist.op = "tick" /\ hist.idx = 0 /\ error = "none"
    /\ hist.prevBrake = "BRAKING"
    /\ drawn.brake_text = ""
    /\ Len(RawRows) > 2
    /\ RawRows[2].v_abs < RawRows[1].v_abs

\* the offset update added to the body's front end, and to the front and
\* rear wheel centres, in um
BodyOffsetDrawn(row, L1) ==
    drawn.body[2][2] - (row.ys * 1000 + L1 * SinMilli(row.theta))
WheelOffsetsDrawn(row) ==
    <<drawn.wheel_f[2] - row.yu1 * 1000, drawn.wheel_r[2] - row.yu2 * 1000>>

\* the profile geometry update uses
Geometry == IF Viewer THEN car_params[current_car] ELSE AnimParams

\* animation.py drew the row {time 1.0, x_abs 10.0, ys 0, theta 0, yu1 0,
\* yu2 0} (L1 1.2, L2 1.3)
ExampleRowDrawn ==
    /\ ~Viewer /\ UpdateCalled /\ hist.idx = 0
    /\ RawRows[1].x_abs = 10000 /\ RawRows[1].ys = 0 /\ RawRows[1].theta = 0
    /\ RawRows[1].yu1 = 0 /\ RawRows[1].yu2 = 0

\* the part of the layout C8 states that does not depend on the offsets
LayoutX(row, g) ==
    /\ drawn.body[1] = <<(row.x_abs - g.L2) * 1000, (row.x_abs + g.L1) * 1000>>
    /\ drawn.wheel_f[1] = (row.x_abs + g.L1) * 1000
    /\ drawn.wheel_r[1] = (row.x_abs - g.L2) * 1000
    /\ drawn.body[2][1] - (row.ys * 1000 - g.L2 * SinMilli(row.theta))
          = BodyOffsetDrawn(row, g.L1)

\* C8 as stated: body and wheel centres are raised by one and the same
\* groundOffset; in the example the body is (8.7, 0.5)-(11.2, 0.5) and the
\* wheel centres are at yu + 0.5
C8_OneGroundOffset ==
    (UpdateCalled /\ hist.idx >= 0 /\ error = "none") =>
        LET row == RawRows[hist.idx + 1]
        IN  /\ LayoutX(row, Geometry)
            /\ WheelOffsetsDrawn(row) =
                  <<BodyOffsetDrawn(row, Geometry.L1),
                    BodyOffsetDrawn(row, Geometry.L1)>>
            /\ ExampleRowDrawn =>
                  /\ drawn.body = << <<8700000, 11200000>>, <<500000, 500000>> >>
                  /\ drawn.wheel_f[2] = 500000 /\ drawn.wheel_r[2] = 500000

\* C8 as amended: the body is raised by 0.75 and the wheel centres by 0.25
\* in sim-viewer.py, the body by 0.5 and the wheel centres by 0 in
\* animation.py; in the example the body is (8.7, 0.5)-(11.2, 0.5) and the
\* wheel centres are at yu
C8_BodyAndWheelOffsets ==
    (UpdateCalled /\ hist.idx >= 0 /\ error = "none") =>
        LET row == RawRows[hist.idx + 1]
        IN  /\ LayoutX(row, Geometry)
            /\ BodyOffsetDrawn(row, Geometry.L1)
                  = (IF Viewer THEN 750000 ELSE 500000)
            /\ WheelOffsetsDrawn(row)
                  = (IF Viewer THEN <<250000, 250000>> ELSE <<0, 0>>)
            /\ ExampleRowDrawn =>
                  /\ drawn.body = << <<8700000, 11200000>>, <<500000, 500000>> >>
                  /\ drawn.wheel_f = <<11200000, 0>>
                  /\ drawn.wheel_r = <<8700000, 0>>

C8_Witness ==
    /\ Viewer /\ hist.op = "tick" /\ hist.idx > 0 /\ error = "none"
    /\ RawRows[hist.idx + 1].theta # 0
    /\ RawRows[hist.idx + 1].yu1 # RawRows[hist.idx + 1].yu2
    /\ drawn.wheel_f[2] = (RawRows[hist.idx + 1].yu1 + 250) * 1000

\* C9: the stride is at least 1 whenever a timer event can run; a display
\* period shorter than the simulation step makes construction raise (the
\* division by zero in frames=len(df) // step_size) before update is ever
\* called
C9_StrideAtLeastOne ==
    /\ phase \in {"constructed", "running"} => step_size >= 1
    /\ (fps * sim_dt > 1000000) =>
          /\ phase \in {"init", "crashed"}
          /\ hist.frame = 0 - 1 /\ drawn = NoDrawing
          /\ phase = "crashed" => error # "none"
          /\ (phase = "crashed" /\ ~df.isNone /\ DfLen(df) > 0) =>
                error = "ZeroDivisionError"

C9_Witness ==
    /\ fps * sim_dt > 1000000
    /\ phase = "crashed" /\ error = "ZeroDivisionError"
    /\ DfLen(df) > 0

\* C10: every frame passed to update lies in 0 .. (initial len // step_size)
\* - 1, whatever series is active; so the row drawn stays below
\* (initial len // step_size) * step_size, and on a shorter series the
\* frames past its end draw its last row
C10_FrameRangeFixedAtConstruction ==
    phase \in {"constructed", "running"} =>
        LET n0 == hist.initLen \div step_size
        IN  /\ frames = n0
            /\ frame_seq \in 0..n0
            /\ UpdateCalled =>
                  /\ hist.frame \in 0..(n0 - 1)
                  /\ hist.idx < n0 * step_size
                  /\ (hist.frame * step_size >= DfLen(df) /\ DfLen(df) > 0)
                        => hist.idx = DfLen(df) - 1

C10_Witness ==
    /\ Viewer /\ hist.op = "tick" /\ hist.pre.taken
    /\ DfLen(df) > hist.initLen
    /\ hist.frame = frames - 1
    /\ DfLen(df) \div step_size > frames
    /\ frame_seq = frames

====
